---------------------------- MODULE Spec2Model ----------------------------
(***************************************************************************)
(* Cardinality estimation engine (CardinalityEstimation.h / .cpp):         *)
(*   CountMinSketch      a depth x width table of int counters             *)
(*   IncrementalSampler  a Bernoulli admission filter                      *)
(*   CEEngine            two sketches (columns A and B) and one sampler    *)
(*                                                                         *)
(* Specifications:                                                         *)
(*   Spec        the engine: insertTuple, deleteTuple, query, prepare      *)
(*   SketchSpec  one CountMinSketch driven by add / remove directly        *)
(*   HashSpec    universalHash evaluated over widths, values and rows      *)
(*   CtorSpec    the constructors, called with arguments around zero       *)
(*   RouteSpec   the engine queried with column indices outside {0, 1}     *)
(*   StoreSpec   the engine next to the row store it summarises            *)
(***************************************************************************)
EXTENDS Integers, Sequences, FiniteSets

VARIABLES
    num,        \* CEEngine constructor argument (expected row count)
    countMinA,  \* CEEngine::countMinA
    countMinB,  \* CEEngine::countMinB
    sampler,    \* CEEngine::sampler
    result,     \* outcome of the call that has just completed
    sketch,     \* a stand-alone CountMinSketch (SketchSpec)
    nAdd,       \* history: add(v) calls made on sketch
    nRem,       \* history: remove(v) calls made on sketch
    sinceAdd,   \* history: remove(v) calls made since the last add(v)
    ref,        \* reference saturating counter per value
    clamped,    \* history: some remove met a counter that was already 0
    probe,      \* the last evaluation of universalHash (HashSpec)
    rows,       \* the caller's row store: copies of each tuple present
    admittedA   \* history: admitted inserts per tuple[0] since prepare

vars == <<num, countMinA, countMinB, sampler, result,
          sketch, nAdd, nRem, sinceAdd, ref, clamped, probe, rows, admittedA>>

engineVars == <<num, countMinA, countMinB, sampler, result>>
sketchVars == <<sketch, nAdd, nRem, sinceAdd, ref, clamped>>
\* the state only the specifications further down drive
auxVars == <<probe, rows, admittedA>>

---------------------------------------------------------------------------
(* Program constants *)

HashA == 31
HashB == 17
HashP == 15485863
INT_MAX == 2147483647
Depth == 5
MinTupleSize == 2
\* sampler(0.1), in percent
SamplingRatePercent == 10
\* ceil(num * 0.01): one bucket per WidthDivisor expected rows
WidthDivisor == 100

---------------------------------------------------------------------------
(* Bounds of the model *)

\* insertTuple calls that reach the sampler (the generator is never reset)
MaxDraws == 2
\* longest predicate list passed to query
MaxPreds == 3
\* add / remove calls on the stand-alone sketch
MaxAdds == 3
MaxRemoves == 4

\* Values stored in tuples and asked for in predicates: non-negative, so
\* that every bucket index lies inside its row.  31*v + 17*i stays below
\* HashP for these, so the bucket is (31*v + 17*i) mod width:
\* 0 and 2 share every bucket at width 2, 5 shares none with them, and the
\* three are pairwise apart at width 10.
Values == {0, 2, 5}
\* Values used in query predicates
QueryValues == {0, 5}
\* Column indices used in query predicates
Columns == {0, 1}
\* Constructor arguments: 101 rounds up to width 2, 1000 gives width 10
NumChoices == {101, 1000}
\* (width, depth) of the stand-alone sketch
SketchDims == {<<10, 3>>, <<2, 5>>}
\* Uniform draws in [0, 1), in percent: both sides of the sampling rate
DrawValues == {0, 9, 10, 99}

Tuples == UNION {[1..n -> Values] : n \in 0..(MinTupleSize + 1)}
Preds == [columnIdx : Columns, value : QueryValues]
QueryInputs == UNION {[1..n -> Preds] : n \in 0..MaxPreds}

---------------------------------------------------------------------------
(* CountMinSketch *)

\* C++ operator % : the remainder takes the sign of the dividend
TruncRem(x, m) == IF x >= 0 THEN x % m ELSE -((-x) % m)

\* the hash without the reduction modulo the prime
UniversalHashNoPrime(s, value, i) ==
    TruncRem(HashA * value + HashB * i, s.width)

universalHash(s, value, i) ==
    TruncRem(TruncRem(HashA * value + HashB * i, HashP), s.width)

CountMinSketch(w, d) ==
    [width |-> w, depth |-> d,
     table |-> [i \in 0..(d - 1) |-> [j \in 0..(w - 1) |-> 0]]]

getWidth(s) == s.width
getDepth(s) == s.depth

\* add with the counter assigned instead of incremented
AddCellAssign(s, value, i) ==
    [s.table[i] EXCEPT ![universalHash(s, value, i)] = 1]

\* the loop body of add for row i
AddCell(s, value, i) ==
    [s.table[i] EXCEPT ![universalHash(s, value, i)] = @ + 1]

add(s, value) ==
    [s EXCEPT !.table = [i \in 0..(s.depth - 1) |-> AddCell(s, value, i)]]

Max(a, b) == IF a >= b THEN a ELSE b
Min(a, b) == IF a <= b THEN a ELSE b

\* remove with the clamp applied before the decrement
RemoveCellClampFirst(s, value, i) ==
    [s.table[i] EXCEPT ![universalHash(s, value, i)] = Max(0, @) - 1]

\* remove without the clamp
RemoveCellNoClamp(s, value, i) ==
    [s.table[i] EXCEPT ![universalHash(s, value, i)] = @ - 1]

\* remove that takes two off the counter
RemoveCellByTwo(s, value, i) ==
    [s.table[i] EXCEPT ![universalHash(s, value, i)] = Max(0, @ - 2)]

\* the loop body of remove for row i
RemoveCell(s, value, i) ==
    [s.table[i] EXCEPT ![universalHash(s, value, i)] = Max(0, @ - 1)]

\* remove whose loop starts at row 1
RemoveSkipFirstRow(s, value) ==
    [s EXCEPT !.table = [i \in 0..(s.depth - 1) |->
                            IF i = 0 THEN s.table[i]
                                     ELSE RemoveCell(s, value, i)]]

remove(s, value) ==
    [s EXCEPT !.table = [i \in 0..(s.depth - 1) |-> RemoveCell(s, value, i)]]

\* the loop of estimate from row i on, min_count being the minimum so far
RECURSIVE EstimateFrom(_, _, _, _)
EstimateFrom(s, value, i, min_count) ==
    IF i >= s.depth THEN min_count
    ELSE EstimateFrom(s, value, i + 1,
                      Min(min_count, s.table[i][universalHash(s, value, i)]))

\* estimate with min_count starting at 0 instead of INT_MAX
EstimateInitZero(s, value) == EstimateFrom(s, value, 0, 0)

estimate(s, value) == EstimateFrom(s, value, 0, INT_MAX)

---------------------------------------------------------------------------
(* IncrementalSampler *)

\* the generator is abstracted to the number of values drawn from it
IncrementalSampler(rate) == [sampling_rate |-> rate, draws |-> 0]

\* distribution(generator) < sampling_rate, u being the value drawn
shouldSample(smp, u) == u < smp.sampling_rate

Advance(smp) == [smp EXCEPT !.draws = @ + 1]

---------------------------------------------------------------------------
(* CEEngine *)

\* the width rounded down instead of up
SketchWidthFloor(n) == n \div WidthDivisor

\* std::ceil(num * 0.01) for num > 0
SketchWidth(n) == (n + WidthDivisor - 1) \div WidthDivisor

NoResult ==
    [op |-> "none", err |-> "none", size |-> 0, admitted |-> FALSE,
     quals |-> <<>>, ret |-> 0]

Outcome(op, err, size) ==
    [NoResult EXCEPT !.op = op, !.err = err, !.size = size]

\* no call is in progress: the caller may make the next one
Ready == result.op = "none"

\* the first loop of query with a column's estimate overwritten by the latest
RECURSIVE ColumnEstimatesOverwrite(_, _, _, _, _)
ColumnEstimatesOverwrite(a, b, quals, k, columnEstimates) ==
    IF k > Len(quals) THEN columnEstimates
    ELSE LET qual == quals[k]
             est == IF qual.columnIdx = 0 THEN estimate(a, qual.value)
                                          ELSE estimate(b, qual.value)
             next == [c \in DOMAIN columnEstimates \cup {qual.columnIdx} |->
                         IF c = qual.columnIdx THEN est ELSE columnEstimates[c]]
         IN  ColumnEstimatesOverwrite(a, b, quals, k + 1, next)

\* the first loop of query with column 1 sent to sketch B and the rest to A
RECURSIVE ColumnEstimatesRouteOne(_, _, _, _, _)
ColumnEstimatesRouteOne(a, b, quals, k, columnEstimates) ==
    IF k > Len(quals) THEN columnEstimates
    ELSE LET qual == quals[k]
             est == IF qual.columnIdx = 1 THEN estimate(b, qual.value)
                                          ELSE estimate(a, qual.value)
             next == IF qual.columnIdx \notin DOMAIN columnEstimates
                     THEN [c \in DOMAIN columnEstimates \cup {qual.columnIdx} |->
                              IF c = qual.columnIdx THEN est
                                                    ELSE columnEstimates[c]]
                     ELSE [columnEstimates EXCEPT
                              ![qual.columnIdx] = Min(@, est)]
         IN  ColumnEstimatesRouteOne(a, b, quals, k + 1, next)

\* the first loop of query from predicate k on: columnEstimates maps a column
\* index to the smallest estimate seen for it
RECURSIVE ColumnEstimates(_, _, _, _, _)
ColumnEstimates(a, b, quals, k, columnEstimates) ==
    IF k > Len(quals) THEN columnEstimates
    ELSE LET qual == quals[k]
             est == IF qual.columnIdx = 0 THEN estimate(a, qual.value)
                                          ELSE estimate(b, qual.value)
             next == IF qual.columnIdx \notin DOMAIN columnEstimates
                     THEN [c \in DOMAIN columnEstimates \cup {qual.columnIdx} |->
                              IF c = qual.columnIdx THEN est
                                                    ELSE columnEstimates[c]]
                     ELSE [columnEstimates EXCEPT
                              ![qual.columnIdx] = Min(@, est)]
         IN  ColumnEstimates(a, b, quals, k + 1, next)

\* the second loop of query over the entries of columnEstimates not yet visited
RECURSIVE FinalResult(_, _, _)
FinalResult(columnEstimates, todo, finalResult) ==
    IF todo = {} THEN finalResult
    ELSE LET c == CHOOSE x \in todo : TRUE
         IN  FinalResult(columnEstimates, todo \ {c},
                         Min(finalResult, columnEstimates[c]))

\* query on a non-empty predicate list
query(a, b, quals) ==
    LET columnEstimates == ColumnEstimates(a, b, quals, 1, [c \in {} |-> 0])
    IN  FinalResult(columnEstimates, DOMAIN columnEstimates, INT_MAX)

\* prepare that keeps the sketch it was given
PrepareSketchKeep(s) == s

\* one assignment of prepare
PrepareSketch(s) == CountMinSketch(getWidth(s), getDepth(s))

\* the sketches the constructor builds, before it calls prepare
InitialSketch(n) == CountMinSketch(SketchWidth(n), Depth)

EngineInit ==
    /\ num \in NumChoices
    /\ countMinA = PrepareSketch(InitialSketch(num))
    /\ countMinB = PrepareSketch(InitialSketch(num))
    /\ sampler = IncrementalSampler(SamplingRatePercent)
    /\ result = Outcome("construct", "none", 0)

\* insertTuple that draws from the sampler before it validates the tuple
InsertTupleDrawFirst(tuple) ==
    /\ Ready
    /\ sampler.draws < MaxDraws
    /\ \E u \in DrawValues :
         /\ sampler' = Advance(sampler)
         /\ IF Len(tuple) < MinTupleSize
            THEN /\ result' = Outcome("insertTuple", "MalformedTuple", Len(tuple))
                 /\ UNCHANGED <<countMinA, countMinB>>
            ELSE /\ IF shouldSample(sampler, u)
                    THEN /\ countMinA' = add(countMinA, tuple[1])
                         /\ countMinB' = add(countMinB, tuple[2])
                    ELSE UNCHANGED <<countMinA, countMinB>>
                 /\ result' = [Outcome("insertTuple", "none", Len(tuple))
                                 EXCEPT !.admitted = shouldSample(sampler, u)]
    /\ UNCHANGED <<num, sketchVars>>

\* insertTuple that samples each column on its own
InsertTupleIndependent(tuple) ==
    /\ Ready
    /\ IF Len(tuple) < MinTupleSize
       THEN /\ result' = Outcome("insertTuple", "MalformedTuple", Len(tuple))
            /\ UNCHANGED <<countMinA, countMinB, sampler>>
       ELSE /\ sampler.draws < MaxDraws
            /\ \E u \in DrawValues, u2 \in DrawValues :
                 /\ sampler' = Advance(sampler)
                 /\ countMinA' = IF shouldSample(sampler, u)
                                 THEN add(countMinA, tuple[1]) ELSE countMinA
                 /\ countMinB' = IF shouldSample(sampler, u2)
                                 THEN add(countMinB, tuple[2]) ELSE countMinB
                 /\ result' = [Outcome("insertTuple", "none", Len(tuple))
                                 EXCEPT !.admitted = shouldSample(sampler, u)]
    /\ UNCHANGED <<num, sketchVars>>

\* insertTuple that adds to the sketches whatever the sampler decided
InsertTupleAlways(tuple) ==
    /\ Ready
    /\ IF Len(tuple) < MinTupleSize
       THEN /\ result' = Outcome("insertTuple", "MalformedTuple", Len(tuple))
            /\ UNCHANGED <<countMinA, countMinB, sampler>>
       ELSE /\ sampler.draws < MaxDraws
            /\ \E u \in DrawValues :
                 /\ sampler' = Advance(sampler)
                 /\ countMinA' = add(countMinA, tuple[1])
                 /\ countMinB' = add(countMinB, tuple[2])
                 /\ result' = [Outcome("insertTuple", "none", Len(tuple))
                                 EXCEPT !.admitted = shouldSample(sampler, u)]
    /\ UNCHANGED <<num, sketchVars>>

InsertTuple(tuple) ==
    /\ Ready
    /\ IF Len(tuple) < MinTupleSize
       THEN /\ result' = Outcome("insertTuple", "MalformedTuple", Len(tuple))
            /\ UNCHANGED <<countMinA, countMinB, sampler>>
       ELSE /\ sampler.draws < MaxDraws
            /\ \E u \in DrawValues :
                 /\ sampler' = Advance(sampler)
                 /\ IF shouldSample(sampler, u)
                    THEN /\ countMinA' = add(countMinA, tuple[1])
                         /\ countMinB' = add(countMinB, tuple[2])
                    ELSE UNCHANGED <<countMinA, countMinB>>
                 /\ result' = [Outcome("insertTuple", "none", Len(tuple))
                                 EXCEPT !.admitted = shouldSample(sampler, u)]
    /\ UNCHANGED <<num, sketchVars>>

\* deleteTuple gated by the sampler, as insertTuple is
DeleteTupleSampled(tuple, tupleId) ==
    /\ Ready
    /\ IF Len(tuple) < MinTupleSize
       THEN /\ result' = Outcome("deleteTuple", "MalformedTuple", Len(tuple))
            /\ UNCHANGED <<countMinA, countMinB, sampler>>
       ELSE /\ sampler.draws < MaxDraws
            /\ \E u \in DrawValues :
                 /\ sampler' = Advance(sampler)
                 /\ IF shouldSample(sampler, u)
                    THEN /\ countMinA' = remove(countMinA, tuple[1])
                         /\ countMinB' = remove(countMinB, tuple[2])
                    ELSE UNCHANGED <<countMinA, countMinB>>
                 /\ result' = Outcome("deleteTuple", "none", Len(tuple))
    /\ UNCHANGED <<num, sketchVars>>

DeleteTuple(tuple, tupleId) ==
    /\ Ready
    /\ IF Len(tuple) < MinTupleSize
       THEN /\ result' = Outcome("deleteTuple", "MalformedTuple", Len(tuple))
            /\ UNCHANGED <<countMinA, countMinB>>
       ELSE /\ countMinA' = remove(countMinA, tuple[1])
            /\ countMinB' = remove(countMinB, tuple[2])
            /\ result' = Outcome("deleteTuple", "none", Len(tuple))
    /\ UNCHANGED <<num, sampler, sketchVars>>

\* query without the check for an empty predicate list
QueryUnchecked(quals) ==
    /\ Ready
    /\ result' = [Outcome("query", "none", Len(quals))
                     EXCEPT !.quals = quals,
                            !.ret = query(countMinA, countMinB, quals)]
    /\ UNCHANGED <<num, countMinA, countMinB, sampler, sketchVars>>

\* query that resets the sketches once it has its answer
QueryResetting(quals) ==
    /\ Ready
    /\ result' = IF Len(quals) = 0
                 THEN Outcome("query", "EmptyQuery", 0)
                 ELSE [Outcome("query", "none", Len(quals))
                          EXCEPT !.quals = quals,
                                 !.ret = query(countMinA, countMinB, quals)]
    /\ countMinA' = PrepareSketch(countMinA)
    /\ countMinB' = PrepareSketch(countMinB)
    /\ UNCHANGED <<num, sampler, sketchVars>>

Query(quals) ==
    /\ Ready
    /\ result' = IF Len(quals) = 0
                 THEN Outcome("query", "EmptyQuery", 0)
                 ELSE [Outcome("query", "none", Len(quals))
                          EXCEPT !.quals = quals,
                                 !.ret = query(countMinA, countMinB, quals)]
    /\ UNCHANGED <<num, countMinA, countMinB, sampler, sketchVars>>

\* prepare that also rebuilds the sampler
PrepareResetSampler ==
    /\ Ready
    /\ countMinA' = PrepareSketch(countMinA)
    /\ countMinB' = PrepareSketch(countMinB)
    /\ sampler' = IncrementalSampler(sampler.sampling_rate)
    /\ result' = Outcome("prepare", "none", 0)
    /\ UNCHANGED <<num, sketchVars>>

Prepare ==
    /\ Ready
    /\ countMinA' = PrepareSketch(countMinA)
    /\ countMinB' = PrepareSketch(countMinB)
    /\ result' = Outcome("prepare", "none", 0)
    /\ UNCHANGED <<num, sampler, sketchVars>>

\* the call returns (or its exception propagates) to the caller
Return ==
    /\ ~Ready
    /\ result' = NoResult
    /\ UNCHANGED <<num, countMinA, countMinB, sampler, sketchVars>>

\* tupleId values passed to deleteTuple
TupleIds == {0, 7}

---------------------------------------------------------------------------
(* The stand-alone sketch and its history *)

RECURSIVE Sum(_, _)
Sum(f, S) ==
    IF S = {} THEN 0
    ELSE LET x == CHOOSE y \in S : TRUE IN f[x] + Sum(f, S \ {x})

Zero == [v \in Values |-> 0]

SketchInit ==
    /\ \E dims \in SketchDims : sketch = CountMinSketch(dims[1], dims[2])
    /\ nAdd = Zero
    /\ nRem = Zero
    /\ sinceAdd = Zero
    /\ ref = Zero
    /\ clamped = FALSE

SketchAdd(value) ==
    /\ Sum(nAdd, Values) < MaxAdds
    /\ sketch' = add(sketch, value)
    /\ nAdd' = [nAdd EXCEPT ![value] = @ + 1]
    /\ sinceAdd' = [sinceAdd EXCEPT ![value] = 0]
    /\ ref' = [ref EXCEPT ![value] = @ + 1]
    /\ UNCHANGED <<nRem, clamped, engineVars>>

SketchRemove(value) ==
    /\ Sum(nRem, Values) < MaxRemoves
    /\ sketch' = remove(sketch, value)
    /\ nRem' = [nRem EXCEPT ![value] = @ + 1]
    /\ sinceAdd' = [sinceAdd EXCEPT ![value] = @ + 1]
    /\ ref' = [ref EXCEPT ![value] = Max(0, @ - 1)]
    /\ clamped' = (clamped \/ \E i \in 0..(sketch.depth - 1) :
                                  sketch.table[i][universalHash(sketch, value, i)] = 0)
    /\ UNCHANGED <<nAdd, engineVars>>

\* the part of the state a specification does not drive
SketchParked ==
    /\ sketch = CountMinSketch(1, 1)
    /\ nAdd = Zero
    /\ nRem = Zero
    /\ sinceAdd = Zero
    /\ ref = Zero
    /\ clamped = FALSE

EngineParked ==
    /\ num = 100
    /\ countMinA = InitialSketch(100)
    /\ countMinB = InitialSketch(100)
    /\ sampler = IncrementalSampler(SamplingRatePercent)
    /\ result = NoResult

---------------------------------------------------------------------------
(* Construction *)

\* constructor arguments on both sides of zero
CtorDims == {-1, 0, 1, 2} \X {-1, 0, 1, Depth}
CtorNums == {-100, -50, 0, 1, 101}
\* what a remainder by zero followed by an index into an empty row can do
ZeroWidthOutcomes == {"SIGFPE", "OutOfBounds"}

\* CountMinSketch(w, d): the only failure is the one std::vector raises for
\* a negative size; a zero width or depth builds an empty table
ConstructSketch(w, d) ==
    /\ Ready
    /\ IF w < 0 \/ d < 0
       THEN /\ result' = Outcome("CountMinSketch", "length_error", 0)
            /\ UNCHANGED sketch
       ELSE /\ result' = Outcome("CountMinSketch", "none", 0)
            /\ sketch' = CountMinSketch(w, d)
    /\ UNCHANGED <<num, countMinA, countMinB, sampler,
                   nAdd, nRem, sinceAdd, ref, clamped, auxVars>>

\* CEEngine(num, dataExecuter)
ConstructEngine(n) ==
    /\ Ready
    /\ IF SketchWidth(n) < 0
       THEN /\ result' = Outcome("construct", "length_error", 0)
            /\ UNCHANGED <<num, countMinA, countMinB, sampler>>
       ELSE /\ num' = n
            /\ countMinA' = PrepareSketch(InitialSketch(n))
            /\ countMinB' = PrepareSketch(InitialSketch(n))
            /\ sampler' = IncrementalSampler(SamplingRatePercent)
            /\ result' = Outcome("construct", "none", 0)
    /\ UNCHANGED <<sketchVars, auxVars>>

\* estimate(value) on the sketch last constructed: with rows to visit and a
\* zero width, universalHash takes a remainder by zero
CtorEstimate(value) ==
    /\ Ready
    /\ IF sketch.depth > 0 /\ sketch.width = 0
       THEN \E e \in ZeroWidthOutcomes : result' = Outcome("estimate", e, 0)
       ELSE result' = [Outcome("estimate", "none", 0)
                          EXCEPT !.ret = estimate(sketch, value)]
    /\ UNCHANGED <<num, countMinA, countMinB, sampler, sketchVars, auxVars>>

---------------------------------------------------------------------------
(* universalHash on its own *)

\* widths, values and rows universalHash is evaluated for: 31 * 499543 is the
\* largest multiple of 31 below HashP, so 499543 wraps around HashP between
\* rows 1 and 2
HashWidths == {2, 3, 10}
HashValues == {-7, -1, 0, 1, 2, 3, 5, 499543}
HashRows == 0..(Depth - 1)

Probe(w, value, i) ==
    [width |-> w, value |-> value, i |-> i,
     index |-> universalHash(CountMinSketch(w, Depth), value, i)]

HashParked == probe = Probe(2, 0, 0)

Hash(w, value, i) ==
    /\ probe' = Probe(w, value, i)
    /\ UNCHANGED <<engineVars, sketchVars, rows, admittedA>>

---------------------------------------------------------------------------
(* The engine next to the row store it summarises *)

\* tuples the caller stores: 0 and 2 share every bucket of a width-2 sketch
StoreTuples == {<<0, 5>>, <<2, 5>>, <<5, 0>>, <<5>>}
StoreRows == {t \in StoreTuples : Len(t) >= MinTupleSize}
StoreQueries == {<<[columnIdx |-> 0, value |-> v]>> : v \in Values}

StoreParked ==
    /\ rows = [t \in StoreRows |-> 0]
    /\ admittedA = Zero

\* the caller stores the tuple and tells the engine
StoreInsert(tuple) ==
    /\ InsertTuple(tuple)
    /\ rows' = IF result'.err = "none"
               THEN [rows EXCEPT ![tuple] = @ + 1] ELSE rows
    /\ admittedA' = IF result'.admitted
                    THEN [admittedA EXCEPT ![tuple[1]] = @ + 1] ELSE admittedA
    /\ UNCHANGED probe

\* the caller deletes a tuple it holds and tells the engine
StoreDelete(tuple) ==
    /\ rows[tuple] > 0
    /\ DeleteTuple(tuple, 0)
    /\ rows' = [rows EXCEPT ![tuple] = @ - 1]
    /\ UNCHANGED <<probe, admittedA>>

StoreQuery(quals) ==
    /\ Query(quals)
    /\ UNCHANGED auxVars

\* prepare empties the sketches, not the row store
StorePrepare ==
    /\ Prepare
    /\ admittedA' = Zero
    /\ UNCHANGED <<probe, rows>>

---------------------------------------------------------------------------
(* Specifications *)

AuxParked == HashParked /\ StoreParked

Init == EngineInit /\ SketchParked /\ AuxParked

Next ==
    \/ \E tuple \in Tuples : InsertTuple(tuple) /\ UNCHANGED auxVars
    \/ \E tuple \in Tuples, tupleId \in TupleIds :
          DeleteTuple(tuple, tupleId) /\ UNCHANGED auxVars
    \/ \E quals \in QueryInputs : Query(quals) /\ UNCHANGED auxVars
    \/ Prepare /\ UNCHANGED auxVars
    \/ Return /\ UNCHANGED auxVars

Spec == Init /\ [][Next]_vars

InitSketch == SketchInit /\ EngineParked /\ AuxParked

NextSketch ==
    \/ \E value \in Values : SketchAdd(value) /\ UNCHANGED auxVars
    \/ \E value \in Values : SketchRemove(value) /\ UNCHANGED auxVars

\* the engine, queried with column indices inside and outside {0, 1}
MaxRoutePreds == 2
RouteColumns == {0, 1, 2}
RoutePreds == [columnIdx : RouteColumns, value : QueryValues]
RouteInputs == UNION {[1..n -> RoutePreds] : n \in 0..MaxRoutePreds}
\* tuples that fill the two sketches differently
RouteTuples == {<<0, 5>>, <<5, 2>>}

NextRoute ==
    \/ \E tuple \in RouteTuples : InsertTuple(tuple) /\ UNCHANGED auxVars
    \/ \E tuple \in RouteTuples : DeleteTuple(tuple, 0) /\ UNCHANGED auxVars
    \/ \E quals \in RouteInputs : Query(quals) /\ UNCHANGED auxVars
    \/ Return /\ UNCHANGED auxVars

RouteSpec == Init /\ [][NextRoute]_vars

NextStore ==
    \/ \E tuple \in StoreTuples : StoreInsert(tuple)
    \/ \E tuple \in StoreRows : StoreDelete(tuple)
    \/ \E quals \in StoreQueries : StoreQuery(quals)
    \/ StorePrepare
    \/ Return /\ UNCHANGED auxVars

StoreSpec == Init /\ [][NextStore]_vars

InitCtor == EngineParked /\ SketchParked /\ AuxParked

NextCtor ==
    \/ \E dims \in CtorDims : ConstructSketch(dims[1], dims[2])
    \/ \E n \in CtorNums : ConstructEngine(n)
    \/ \E value \in Values : CtorEstimate(value)
    \/ Return /\ UNCHANGED auxVars

CtorSpec == InitCtor /\ [][NextCtor]_vars

InitHash == AuxParked /\ EngineParked /\ SketchParked

NextHash ==
    \E w \in HashWidths, value \in HashValues, i \in HashRows : Hash(w, value, i)

HashSpec == InitHash /\ [][NextHash]_vars

SketchSpec == InitSketch /\ [][NextSketch]_vars

---------------------------------------------------------------------------
(* Properties *)

NonNegative(s) ==
    \A i \in 0..(s.depth - 1), j \in 0..(s.width - 1) : s.table[i][j] >= 0

AllZero(s) ==
    \A i \in 0..(s.depth - 1), j \in 0..(s.width - 1) : s.table[i][j] = 0

WellFormed == {t \in Tuples : Len(t) >= 2}

\* C1: every counter of both engine sketches is >= 0 in every reachable state.
C1_NonNegative == NonNegative(countMinA) /\ NonNegative(countMinB)

\* a deleteTuple has run on sketches that never received an add
C1_Witness ==
    /\ result.op = "deleteTuple"
    /\ result.err = "none"
    /\ sampler.draws = 0
    /\ AllZero(countMinA)

\* C2: while no remove has been called, estimate(v) is at least the number of
\* add(v) calls, for every value v.
C2_InsertOnlyLowerBound ==
    (\A u \in Values : nRem[u] = 0)
        => \A v \in Values : estimate(sketch, v) >= nAdd[v]

\* insert-only, and a collision makes the estimate of 0 exceed its adds
C2_Witness ==
    /\ \A u \in Values : nRem[u] = 0
    /\ nAdd[0] = 2
    /\ nAdd[2] = 1
    /\ estimate(sketch, 0) = 3

\* the estimate one predicate stands for
PredEstimate(p) ==
    IF p.columnIdx = 0 THEN estimate(countMinA, p.value)
                       ELSE estimate(countMinB, p.value)

\* C3: a query that returns gives the minimum of its predicates' estimates
\* (column 0 against sketch A, column 1 against sketch B), a non-negative
\* integer.
C3_QueryReduction ==
    (result.op = "query" /\ result.err = "none")
        => /\ \E k \in 1..Len(result.quals) :
                 result.ret = PredEstimate(result.quals[k])
           /\ \A k \in 1..Len(result.quals) :
                 result.ret <= PredEstimate(result.quals[k])
           /\ result.ret \in Nat

\* a query on [(0,x),(0,y),(1,z)] whose estimates differ
C3_Witness ==
    /\ result.op = "query"
    /\ Len(result.quals) = 3
    /\ result.quals[1].columnIdx = 0
    /\ result.quals[2].columnIdx = 0
    /\ result.quals[3].columnIdx = 1
    /\ result.quals[1].value # result.quals[2].value
    /\ PredEstimate(result.quals[1]) = 1
    /\ PredEstimate(result.quals[2]) = 1
    /\ PredEstimate(result.quals[3]) = 2
    /\ result.ret = 1

\* u and v share a bucket in some row of the stand-alone sketch
Collides(u, v) ==
    \E i \in 0..(sketch.depth - 1) :
        universalHash(sketch, u, i) = universalHash(sketch, v, i)

\* no other value sharing a bucket with v has been added
NoColliderAdded(v) ==
    \A u \in Values \ {v} : Collides(u, v) => nAdd[u] = 0

\* C4 as stated: more remove(v) than add(v) calls, in any order, and no
\* colliding value added, give estimate(v) = 0.
C4_Original ==
    \A v \in Values :
        (nRem[v] > nAdd[v] /\ NoColliderAdded(v)) => estimate(sketch, v) = 0

\* C4 amended: when the remove(v) calls made since the last add(v) outnumber
\* all add(v) calls, and no colliding value has been added, estimate(v) = 0;
\* and no counter is ever below 0.
C4_SaturatingDelete ==
    /\ \A v \in Values :
          (sinceAdd[v] > nAdd[v] /\ NoColliderAdded(v))
              => estimate(sketch, v) = 0
    /\ NonNegative(sketch)

\* 0 added twice and removed three times, its collider 2 only ever removed
C4_Witness ==
    /\ sketch.width = 2
    /\ nAdd[0] = 2
    /\ sinceAdd[0] = 3
    /\ nAdd[2] = 0
    /\ nRem[2] = 1
    /\ estimate(sketch, 0) = 0

\* C5: on a sketch where only v was ever added or removed, estimate(v) equals
\* the reference saturating counter of v.
C5_SingleValueCounter ==
    \A v \in Values :
        (\A u \in Values \ {v} : nAdd[u] = 0 /\ nRem[u] = 0)
            => estimate(sketch, v) = ref[v]

\* width 10, depth 3: add(5) three times, then remove(5) four times
C5_Witness ==
    /\ sketch.width = 10
    /\ sketch.depth = 3
    /\ nAdd[5] = 3
    /\ sinceAdd[5] = 4
    /\ \A u \in Values \ {5} : nAdd[u] = 0 /\ nRem[u] = 0
    /\ ref[5] = 0
    /\ estimate(sketch, 5) = 0

\* C6: insertTuple and deleteTuple end in MalformedTuple exactly when the
\* tuple has fewer than 2 elements, query ends in EmptyQuery exactly when the
\* predicate list is empty, and no call ends in another error.
C6_Validation ==
    /\ result.op \in {"insertTuple", "deleteTuple"}
          => /\ result.err \in {"none", "MalformedTuple"}
             /\ result.err = "MalformedTuple" <=> result.size < 2
    /\ result.op = "query"
          => /\ result.err \in {"none", "EmptyQuery"}
             /\ result.err = "EmptyQuery" <=> result.size = 0
    /\ result.op \in {"construct", "prepare", "none"} => result.err = "none"

\* insertTuple([7]): a one-element tuple is rejected
C6_Witness ==
    /\ result.op = "insertTuple"
    /\ result.size = 1
    /\ result.err = "MalformedTuple"

\* C7: a call that ends in an error leaves both sketches and the sampler as
\* they were.
C7_NoPartialApplication ==
    [][result'.err # "none"
          => /\ countMinA' = countMinA
             /\ countMinB' = countMinB
             /\ sampler' = sampler]_vars

\* a tuple is rejected by an engine that holds counts and has drawn
C7_Witness ==
    /\ result.op \in {"insertTuple", "deleteTuple"}
    /\ result.err = "MalformedTuple"
    /\ sampler.draws > 0
    /\ ~AllZero(countMinA)

\* C8: the constructed engine is all-zero; prepare leaves every counter of
\* both sketches 0 and their (width, depth) as before, and preparing the
\* prepared sketches again changes nothing.
C8_ResetIdempotence ==
    /\ AllZero(countMinA) /\ AllZero(countMinB)
    /\ [][result'.op = "prepare"
             => /\ AllZero(countMinA') /\ AllZero(countMinB')
                /\ getWidth(countMinA') = getWidth(countMinA)
                /\ getDepth(countMinA') = getDepth(countMinA)
                /\ getWidth(countMinB') = getWidth(countMinB)
                /\ getDepth(countMinB') = getDepth(countMinB)
                /\ PrepareSketch(countMinA') = countMinA'
                /\ PrepareSketch(countMinB') = countMinB']_vars

\* prepare has returned on an engine that had taken both its draws
C8_Witness ==
    /\ result.op = "prepare"
    /\ sampler.draws = MaxDraws
    /\ AllZero(countMinA)
    /\ AllZero(countMinB)

\* w = ceil(n / 100)
IsCeilHundredth(w, n) == w * 100 >= n /\ (w - 1) * 100 < n

\* C9: both sketches always have width ceil(num x 0.01) and depth 5.
C9_Sizing ==
    /\ IsCeilHundredth(getWidth(countMinA), num)
    /\ IsCeilHundredth(getWidth(countMinB), num)
    /\ getDepth(countMinA) = 5
    /\ getDepth(countMinB) = 5

\* num = 1000 gives width 10, still so after inserts and a prepare
C9_Witness ==
    /\ num = 1000
    /\ getWidth(countMinA) = 10
    /\ getWidth(countMinB) = 10
    /\ result.op = "prepare"
    /\ sampler.draws > 0

\* C10: an insertTuple on a well-formed tuple draws once from the sampler and
\* either adds tuple[0] to sketch A and tuple[1] to sketch B or changes
\* neither sketch.
C10_SharedSamplingDecision ==
    [][(result'.op = "insertTuple" /\ result'.err = "none")
          => /\ sampler'.draws = sampler.draws + 1
             /\ \/ /\ result'.admitted
                   /\ \E t \in WellFormed :
                         /\ countMinA' = add(countMinA, t[1])
                         /\ countMinB' = add(countMinB, t[2])
                \/ /\ ~result'.admitted
                   /\ countMinA' = countMinA
                   /\ countMinB' = countMinB]_vars

\* one insert was turned away and the next admitted into both sketches
C10_Witness ==
    /\ result.op = "insertTuple"
    /\ result.admitted
    /\ sampler.draws = 2
    /\ estimate(countMinA, 0) = 1
    /\ estimate(countMinB, 5) = 1
    /\ estimate(countMinA, 5) = 0
    /\ estimate(countMinB, 0) = 0

\* C11: every deleteTuple step on a well-formed tuple removes tuple[0] from
\* sketch A and tuple[1] from sketch B and leaves the sampler alone, and the
\* same step is a deleteTuple step for every other tupleId.
C11_UnconditionalDelete ==
    [][(result'.op = "deleteTuple" /\ result'.err = "none")
          => \A t \in WellFormed, id \in TupleIds :
                (result'.size = Len(t) /\ DeleteTuple(t, id))
                    => /\ countMinA' = remove(countMinA, t[1])
                       /\ countMinB' = remove(countMinB, t[2])
                       /\ sampler' = sampler
                       /\ \A id2 \in TupleIds : DeleteTuple(t, id2)]_vars

\* a delete has run after two draws of which only one was admitted: the
\* sketches are back at zero although a tuple was inserted twice
C11_Witness ==
    /\ result.op = "deleteTuple"
    /\ result.err = "none"
    /\ sampler.draws = 2
    /\ AllZero(countMinA)
    /\ AllZero(countMinB)

C18_RoundTrip ==
    \A v \in Values :
        LET added == add(sketch, v)
            removed == remove(sketch, v)
        IN  /\ remove(added, v) = sketch
            /\ \A i \in 0..(sketch.depth - 1), j \in 0..(sketch.width - 1) :
                  j # universalHash(sketch, v, i)
                      => /\ added.table[i][j] = sketch.table[i][j]
                         /\ removed.table[i][j] = sketch.table[i][j]
            /\ (add(removed, v) = sketch)
                  <=> \A i \in 0..(sketch.depth - 1) :
                         sketch.table[i][universalHash(sketch, v, i)] # 0

\* a sketch on which the reverse order restores the state for 0 (counted
\* once after two adds and a remove) and does not for 5 (never added)
C18_Witness ==
    /\ sketch.width = 10
    /\ nAdd[0] = 2
    /\ nRem[0] = 1
    /\ nAdd[5] = 0
    /\ add(remove(sketch, 0), 0) = sketch
    /\ add(remove(sketch, 5), 5) # sketch
    /\ remove(add(sketch, 5), 5) = sketch

\* C19: a query step, whether it returns or fails, leaves both sketches
\* (counters and dimensions) unchanged, and the same query asked again in
\* the state it leaves returns the same result.
C19_QueryReadOnly ==
    [][result'.op = "query"
          => /\ countMinA' = countMinA
             /\ countMinB' = countMinB
             /\ result'.err = "none"
                   => result'.ret =
                          query(countMinA', countMinB', result'.quals)]_vars

\* a one-predicate query has returned 2 from sketches that hold counts
C19_Witness ==
    /\ result.op = "query"
    /\ Len(result.quals) = 1
    /\ result.ret = 2
    /\ ~AllZero(countMinA)
    /\ ~AllZero(countMinB)

\* C13 as stated: while no remove has clamped, estimate(v) is at least
\* add(v) calls minus remove(v) calls, for every value v.
C13_Original ==
    ~clamped => \A v \in Values : estimate(sketch, v) >= nAdd[v] - nRem[v]

\* C13: while no remove has clamped and no value has had more remove calls
\* than add calls, estimate(v) is at least add(v) calls minus remove(v)
\* calls, for every value v.
C13_UpperBound ==
    (~clamped /\ \A u \in Values : nRem[u] <= nAdd[u])
        => \A v \in Values : estimate(sketch, v) >= nAdd[v] - nRem[v]

\* adds of the colliding values 0 and 2 and one remove, none of which clamped
C13_Witness ==
    /\ ~clamped
    /\ sketch.width = 2
    /\ nAdd[0] = 2
    /\ nAdd[2] = 1
    /\ nRem[0] = 1
    /\ estimate(sketch, 0) = 2

\* C15: for a non-negative value v the bucket in row i is
\* ((31*v + 17*i) mod 15485863) mod width, and for the width just hashed
\* there are distinct non-negative values u, v and rows i # j such that
\* u and v share a bucket in row i but not in row j.
C15_DecorrelatedRows ==
    /\ probe.value >= 0
          => probe.index =
                ((31 * probe.value + 17 * probe.i) % 15485863) % probe.width
    /\ \E u, v \in {x \in HashValues : x >= 0}, i, j \in HashRows :
          LET s == CountMinSketch(probe.width, Depth)
          IN  /\ u # v
              /\ i # j
              /\ universalHash(s, u, i) = universalHash(s, v, i)
              /\ universalHash(s, u, j) # universalHash(s, v, j)

\* 499543 hashed in row 2 of a width-10 sketch: 31*v + 34 has wrapped to 4
C15_Witness ==
    /\ probe.width = 10
    /\ probe.value = 499543
    /\ probe.i = 2
    /\ probe.index = 4
    /\ Probe(10, 3, 0).index = Probe(10, 499543, 0).index
    /\ Probe(10, 3, 2).index # Probe(10, 499543, 2).index

\* C17: every bucket index universalHash computes, negative values included,
\* satisfies 0 <= index < width.
C17_IndexInRange == 0 <= probe.index /\ probe.index < probe.width

Range(f) == {f[k] : k \in DOMAIN f}

\* C20: a query call is rejected only for an empty predicate list, whatever
\* the column indices are; it returns the minimum of its predicates'
\* estimates, a predicate being estimated from sketch A when its column index
\* is 0 and from sketch B otherwise; and any list with the same set of
\* predicates (reordered, duplicated) gives the same result.
C20_ColumnRouting ==
    result.op = "query"
        => /\ result.err = "none" <=> result.size > 0
           /\ result.err = "none"
                 => /\ Len(result.quals) = result.size
                    /\ \E k \in 1..Len(result.quals) :
                          result.ret = PredEstimate(result.quals[k])
                    /\ \A k \in 1..Len(result.quals) :
                          result.ret <= PredEstimate(result.quals[k])
                    /\ \A q2 \in RouteInputs :
                          Range(q2) = Range(result.quals)
                              => query(countMinA, countMinB, q2) = result.ret

\* a predicate on column 2 has been answered from sketch B, which differs
\* from sketch A for its value
C20_Witness ==
    /\ result.op = "query"
    /\ result.err = "none"
    /\ result.quals = <<[columnIdx |-> 2, value |-> 5]>>
    /\ result.ret = 1
    /\ estimate(countMinA, 5) = 0
    /\ estimate(countMinB, 5) = 1

\* C12: no construction with a width or depth <= 0 succeeds: a sketch that
\* has been constructed has width > 0 and depth > 0, and so have both
\* sketches of an engine that has been constructed.
C12_DimensionValidation ==
    /\ (result.op = "CountMinSketch" /\ result.err = "none")
          => (sketch.width > 0 /\ sketch.depth > 0)
    /\ (result.op = "construct" /\ result.err = "none")
          => /\ countMinA.width > 0 /\ countMinA.depth > 0
             /\ countMinB.width > 0 /\ countMinB.depth > 0

\* values sharing a bucket with v in some row of sketch A
CollidersA(v) ==
    {u \in Values : \E i \in 0..(countMinA.depth - 1) :
        universalHash(countMinA, u, i) = universalHash(countMinA, v, i)}

\* tuples present in the row store whose first element is in S
Present(S) ==
    Sum([v \in Values |->
            Sum([t \in StoreRows |-> IF t[1] = v THEN rows[t] ELSE 0],
                StoreRows)], S)

\* C14: when every deleted tuple was present, estimate_A(v) never exceeds
\* what the admitted inserts of v and of the values sharing its buckets
\* contributed, nor the number of present tuples with such a first element:
\* not-admitted inserts are never made up for, whatever is inserted and
\* deleted afterwards.
C14_UnderCounting ==
    \A v \in Values :
        /\ estimate(countMinA, v) <= Sum(admittedA, CollidersA(v))
        /\ estimate(countMinA, v) <= Present(CollidersA(v))

\* query on (0, 0) returns 0 while one tuple with tuple[0] = 0 is present:
\* of two inserts of <<0, 5>> one was admitted, then one copy was deleted
C14_Witness ==
    /\ result.op = "query"
    /\ result.quals = <<[columnIdx |-> 0, value |-> 0]>>
    /\ result.ret = 0
    /\ rows[<<0, 5>>] = 1
    /\ Present({0}) = 1
    /\ admittedA[0] = 1
    /\ result.ret < Present({0})

====
